---------------------------- MODULE Spec2Model ----------------------------
(***************************************************************************)
(* A model of the loxrust scanner (src/src/scanner.rs).                    *)
(*                                                                         *)
(* The source text is a sequence of bytes (Scanner.source is &[u8]); a     *)
(* byte is a number 0..255 and `b as char` is the character with that code *)
(* point, so characters are compared by their codes.  Offsets are the      *)
(* code's 0-based offsets: byte number k of the code is source[k + 1].     *)
(*                                                                         *)
(* Every &mut self method of Scanner is an operator from the scanner's     *)
(* fields (a record s) to the fields after the call; a loop is a           *)
(* RECURSIVE operator.  A panic (an index out of bounds, an unwrap of an   *)
(* Err) sets s.panicked, after which nothing else runs.                    *)
(***************************************************************************)
EXTENDS Integers, Sequences, FiniteSets, TLC

VARIABLES
    source,     \* Scanner.source: the bytes of the &str given to Scanner::new
    error_cb,   \* Scanner.error_cb: TRUE for Some(callback), FALSE for None
    tokens,     \* Scanner.tokens
    had_error,  \* Scanner.had_error
    start,      \* Scanner.start
    current,    \* Scanner.current
    line,       \* Scanner.line (a u64: one more per newline, far from 2^64 here)
    sink,       \* the calls the error callback has received: <<line, msg>>
    detected,   \* history: every call of report_error, with or without a callback
    spans,      \* history: for each token, the <<start, current>> it was pushed at
    pc,         \* "new", "scanning", "returned" or "panicked"
    calls,      \* the number of calls of scan_tokens so far
    steps,      \* history: the number of iterations of scan_tokens' loop so far
    comments,   \* history: for each comment scanned, its <<start, current, line>>
    peer,       \* a second Scanner over the same source: its fields and its pc
    printer     \* an AstPrinter and the expression it prints

vars == <<source, error_cb, tokens, had_error, start, current, line,
          sink, detected, spans, pc, calls, steps, comments, peer, printer>>

-----------------------------------------------------------------------------
(* Bounds of the model.                                                    *)

\* Every source over Alphabet of at most MaxLen bytes is scanned.
MaxLen == 3
\* scan_tokens is called at most MaxCalls times on one Scanner.
MaxCalls == 2

-----------------------------------------------------------------------------
(* Bytes the scanner tests for.                                            *)

NUL == 0
TAB == 9
NEWLINE == 10
FORMFEED == 12
CR == 13
SPACE == 32
BANG == 33
QUOTE == 34
LPAREN == 40
RPAREN == 41
STAR == 42
PLUS == 43
COMMA == 44
MINUS == 45
DOT == 46
SLASH == 47
SEMICOLON == 59
LESS == 60
EQUAL == 61
GREATER == 62
UNDERSCORE == 95
LBRACE == 123
RBRACE == 125
TILDE == 126

\* Option::None of Token.literal
None == [tag |-> "None"]

-----------------------------------------------------------------------------
(* Character classes.                                                      *)

is_digit(ch) == ch >= 48 /\ ch <= 57

is_alpha(ch) == (ch >= 97 /\ ch <= 122) \/ (ch >= 65 /\ ch <= 90) \/ ch = UNDERSCORE

is_alpha_numeric(ch) == is_digit(ch) \/ is_alpha(ch)

\* Mutant: form feed is not whitespace.
is_whitespace_NoFormFeed(ch) == ch \in {SPACE, TAB, NEWLINE, CR}

\* char::is_ascii_whitespace: space, tab, line feed, form feed, carriage return
is_whitespace(ch) == ch \in {SPACE, TAB, NEWLINE, FORMFEED, CR}

\* The reserved words, as bytes.
keyword(keyword_str) ==
    CASE keyword_str = <<97, 110, 100>> -> "And"                     \* and
      [] keyword_str = <<99, 108, 97, 115, 115>> -> "Class"          \* class
      [] keyword_str = <<101, 108, 115, 101>> -> "Else"              \* else
      [] keyword_str = <<102, 97, 108, 115, 101>> -> "False"         \* false
      [] keyword_str = <<102, 117, 110>> -> "Fun"                    \* fun
      [] keyword_str = <<102, 111, 114>> -> "For"                    \* for
      [] keyword_str = <<105, 102>> -> "If"                          \* if
      [] keyword_str = <<110, 105, 108>> -> "Nil"                    \* nil
      [] keyword_str = <<111, 114>> -> "Or"                          \* or
      [] keyword_str = <<112, 114, 105, 110, 116>> -> "Print"        \* print
      [] keyword_str = <<114, 101, 116, 117, 114, 110>> -> "Return"  \* return
      [] keyword_str = <<115, 117, 112, 101, 114>> -> "Super"        \* super
      [] keyword_str = <<116, 104, 105, 115>> -> "This"              \* this
      [] keyword_str = <<116, 114, 117, 101>> -> "True"              \* true
      [] keyword_str = <<118, 97, 114>> -> "Var"                     \* var
      [] keyword_str = <<119, 104, 105, 108, 101>> -> "While"        \* while
      [] OTHER -> "None"

-----------------------------------------------------------------------------
(* str::from_utf8: whether the bytes are UTF-8.  One- to four-byte forms   *)
(* by their lead byte and the number of continuation bytes 0x80..0xBF.     *)

IsCont(b) == b >= 128 /\ b <= 191

RECURSIVE Utf8Valid(_)
Utf8Valid(bytes) ==
    IF bytes = <<>> THEN TRUE
    ELSE LET b == Head(bytes)
             n == IF b < 128 THEN 1
                  ELSE IF b >= 194 /\ b <= 223 THEN 2
                  ELSE IF b >= 224 /\ b <= 239 THEN 3
                  ELSE IF b >= 240 /\ b <= 244 THEN 4
                  ELSE 0
         IN  /\ n > 0
             /\ Len(bytes) >= n
             /\ \A k \in 2..n : IsCont(bytes[k])
             /\ Utf8Valid(SubSeq(bytes, n + 1, Len(bytes)))

-----------------------------------------------------------------------------
(* str::parse::<f64> on the text number() hands it.  The value is kept as  *)
(* the decimal mant / 10^scale with no trailing zero in the fraction, so   *)
(* "1.50" and "1.5" are the same number and "1.5" and "15" are not.  (An   *)
(* f64 rounds, but keeps decimals of up to 15 significant digits apart.)   *)

IsDot(b) == b = DOT

RECURSIVE DecimalValue(_)
DecimalValue(digits) ==
    IF digits = <<>> THEN 0
    ELSE 10 * DecimalValue(SubSeq(digits, 1, Len(digits) - 1))
         + (digits[Len(digits)] - 48)

RECURSIVE Normalize(_, _)
Normalize(mant, scale) ==
    IF scale > 0 /\ mant % 10 = 0 THEN Normalize(mant \div 10, scale - 1)
    ELSE [mant |-> mant, scale |-> scale]

\* Position of the first '.' in text, 0 if there is none.
DotAt(text) ==
    IF \E k \in 1..Len(text) : text[k] = DOT
    THEN CHOOSE k \in 1..Len(text) : text[k] = DOT /\ \A j \in 1..(k - 1) : text[j] # DOT
    ELSE 0

\* Whether f64's FromStr accepts text, for text made of digits and dots.
parse_ok(text) ==
    /\ \A k \in 1..Len(text) : is_digit(text[k]) \/ text[k] = DOT
    /\ Len(SelectSeq(text, IsDot)) <= 1
    /\ Len(SelectSeq(text, is_digit)) >= 1

parse_f64(text) ==
    Normalize(DecimalValue(SelectSeq(text, is_digit)),
              IF DotAt(text) = 0 THEN 0 ELSE Len(text) - DotAt(text))

-----------------------------------------------------------------------------
(* The methods of Scanner.  s is the record of the scanner's fields.       *)

Panic(s) == [s EXCEPT !.panicked = TRUE]

\* Mutant: the end test is off by one.
is_at_end_OffByOne(s) == s.current > Len(source)

is_at_end(s) == s.current >= Len(source)

\* add_token creates a token from the current lexeme.
add_token(s, token_type, literal) ==
    IF s.panicked THEN s
    ELSE IF s.start > s.current \/ s.current > Len(source) THEN Panic(s)
    ELSE LET lexeme == SubSeq(source, s.start + 1, s.current)
         IN  IF ~Utf8Valid(lexeme) THEN Panic(s)
             ELSE [s EXCEPT
                     !.tokens = Append(@, [token_type |-> token_type,
                                           lexeme |-> lexeme,
                                           line |-> s.line,
                                           literal |-> literal]),
                     !.spans = Append(@, <<s.start, s.current>>)]

peek_next(s) ==
    IF (s.current + 1) >= Len(source) THEN NUL ELSE source[s.current + 2]

peek(s) ==
    IF is_at_end(s) THEN NUL ELSE source[s.current + 1]

\* Mutant: a match is reported but the byte is not consumed.
advance_if_NoConsume(s, expected) ==
    IF s.panicked \/ s.current >= Len(source) THEN [ok |-> FALSE, s |-> s]
    ELSE [ok |-> source[s.current + 1] = expected, s |-> s]

\* advance_if returns whether it consumed a byte (ok) and the fields after it.
advance_if(s, expected) ==
    IF s.panicked \/ is_at_end(s) THEN [ok |-> FALSE, s |-> s]
    ELSE IF source[s.current + 1] = expected
         THEN [ok |-> TRUE, s |-> [s EXCEPT !.current = @ + 1]]
         ELSE [ok |-> FALSE, s |-> s]

\* advance consumes the next byte; the byte it returns is Consumed(advance(s)).
advance(s) ==
    IF s.panicked THEN s
    ELSE IF s.current >= Len(source)
         THEN Panic([s EXCEPT !.current = @ + 1])   \* source[current - 1] is out of bounds
         ELSE [s EXCEPT !.current = @ + 1]

Consumed(s) == IF s.panicked THEN NUL ELSE source[s.current]

\* Mutant: the newline that ends the line is consumed with the line.
RECURSIVE consume_line_EatsNewline(_)
consume_line_EatsNewline(s) ==
    IF s.panicked \/ s.current >= Len(source) THEN s
    ELSE IF source[s.current + 1] = NEWLINE THEN [s EXCEPT !.current = @ + 1]
    ELSE consume_line_EatsNewline([s EXCEPT !.current = @ + 1])

\* Mutant: a comment counts the line it ends.
RECURSIVE consume_line_CountsLine(_)
consume_line_CountsLine(s) ==
    IF s.panicked THEN s
    ELSE IF peek(s) # NEWLINE /\ ~is_at_end(s) THEN consume_line_CountsLine(advance(s))
    ELSE [s EXCEPT !.line = @ + 1]

RECURSIVE consume_line(_)
consume_line(s) ==
    IF s.panicked THEN s
    ELSE IF peek(s) # NEWLINE /\ ~is_at_end(s) THEN consume_line(advance(s))
    ELSE s

\* Mutant: the flag is set only when there is no callback to tell.
report_error_FlagOrCallback(s, msg) ==
    IF s.panicked THEN s
    ELSE [s EXCEPT
            !.had_error = @ \/ ~s.error_cb,
            !.detected = Append(@, <<s.line, msg>>),
            !.sink = IF s.error_cb THEN Append(@, <<s.line, msg>>) ELSE @]

\* Mutant: the error is reported but the flag is not set.
report_error_NoFlag(s, msg) ==
    IF s.panicked THEN s
    ELSE [s EXCEPT
            !.detected = Append(@, <<s.line, msg>>),
            !.sink = IF s.error_cb THEN Append(@, <<s.line, msg>>) ELSE @]

\* Mutant: the line of a report counts from zero.
report_error_ZeroBased(s, msg) ==
    IF s.panicked THEN s
    ELSE [s EXCEPT
            !.had_error = TRUE,
            !.detected = Append(@, <<s.line - 1, msg>>),
            !.sink = IF s.error_cb THEN Append(@, <<s.line - 1, msg>>) ELSE @]

\* report_error sets had_error and notifies the callback, if there is one.
report_error(s, msg) ==
    IF s.panicked THEN s
    ELSE [s EXCEPT
            !.had_error = TRUE,
            !.detected = Append(@, <<s.line, msg>>),
            !.sink = IF s.error_cb THEN Append(@, <<s.line, msg>>) ELSE @]

\* Mutant: newlines inside a string are not counted.
RECURSIVE string_loop_NoLineCount(_)
string_loop_NoLineCount(s) ==
    IF s.panicked THEN s
    ELSE IF (IF s.current >= Len(source) THEN NUL ELSE source[s.current + 1]) # QUOTE
            /\ s.current < Len(source)
         THEN string_loop_NoLineCount([s EXCEPT !.current = @ + 1])
         ELSE s

\* Mutant: the loop of string does not test for the end of the source.
RECURSIVE string_loop_NoEndTest(_)
string_loop_NoEndTest(s) ==
    IF s.panicked THEN s
    ELSE IF peek(s) # QUOTE
         THEN string_loop_NoEndTest(advance(IF peek(s) = NEWLINE
                                            THEN [s EXCEPT !.line = @ + 1]
                                            ELSE s))
         ELSE s

RECURSIVE string_loop(_)
string_loop(s) ==
    IF s.panicked THEN s
    ELSE IF peek(s) # QUOTE /\ ~is_at_end(s)
         THEN string_loop(advance(IF peek(s) = NEWLINE
                                  THEN [s EXCEPT !.line = @ + 1]
                                  ELSE s))
         ELSE s

\* Mutant: the return after the report of an unterminated string is missing.
string_NoReturn(s) ==
    LET s0 == string_loop(s)
        s1 == IF is_at_end(s0) THEN report_error(s0, <<"Unterminated string.">>) ELSE s0
        s2 == advance(s1)
    IN  IF s2.panicked THEN s2
        ELSE add_token(s2, "String",
                       [tag |-> "String",
                        str |-> SubSeq(source, s2.start + 2, s2.current - 1)])

\* string consumes a string, producing a String token.
string(s) ==
    LET s1 == string_loop(s)
    IN  IF s1.panicked THEN s1
        ELSE IF is_at_end(s1) THEN report_error(s1, <<"Unterminated string.">>)
        ELSE LET s2 == advance(s1)
                 value == SubSeq(source, s2.start + 2, s2.current - 1)
             IN  IF s2.panicked THEN s2
                 ELSE IF s2.start + 1 > s2.current - 1 \/ ~Utf8Valid(value) THEN Panic(s2)
                 ELSE add_token(s2, "String", [tag |-> "String", str |-> value])

RECURSIVE digits_loop(_)
digits_loop(s) ==
    IF s.panicked THEN s
    ELSE IF is_digit(peek(s)) THEN digits_loop(advance(s))
    ELSE s

\* Mutant: a '.' after the digits is consumed whatever follows it.
number_AbsorbDot(s) ==
    LET s1 == digits_loop(s)
        s2 == IF peek(s1) = DOT THEN digits_loop(advance(s1)) ELSE s1
        value == SubSeq(source, s2.start + 1, s2.current)
    IN  IF s2.panicked THEN s2
        ELSE IF ~parse_ok(value) THEN Panic(s2)
        ELSE add_token(s2, "Number", [tag |-> "Number", num |-> parse_f64(value)])

\* Mutant: the Number token is pushed without its literal.
number_NoLiteral(s) ==
    LET s1 == digits_loop(s)
        s2 == IF peek(s1) = DOT /\ is_digit(peek_next(s1))
              THEN digits_loop(advance(s1))
              ELSE s1
    IN  add_token(s2, "Number", None)

\* number consumes a number, producing a Number token.
number(s) ==
    LET s1 == digits_loop(s)
        s2 == IF peek(s1) = DOT /\ is_digit(peek_next(s1))
              THEN digits_loop(advance(s1))
              ELSE s1
        value == SubSeq(source, s2.start + 1, s2.current)
    IN  IF s2.panicked THEN s2
        ELSE IF ~Utf8Valid(value) \/ ~parse_ok(value) THEN Panic(s2)
        ELSE add_token(s2, "Number", [tag |-> "Number", num |-> parse_f64(value)])

\* Mutant: the run of an identifier stops at a digit.
RECURSIVE identifier_loop_AlphaOnly(_)
identifier_loop_AlphaOnly(s) ==
    IF s.panicked THEN s
    ELSE IF is_alpha(peek(s)) THEN identifier_loop_AlphaOnly(advance(s))
    ELSE s

RECURSIVE identifier_loop(_)
identifier_loop(s) ==
    IF s.panicked THEN s
    ELSE IF is_alpha_numeric(peek(s)) THEN identifier_loop(advance(s))
    ELSE s

\* identifier consumes an identifier or a reserved word.
identifier(s) ==
    LET s1 == identifier_loop(s)
        text == SubSeq(source, s1.start + 1, s1.current)
    IN  IF s1.panicked THEN s1
        ELSE IF ~Utf8Valid(text) THEN Panic(s1)
        ELSE add_token(s1,
                       IF keyword(text) = "None" THEN "Identifier" ELSE keyword(text),
                       None)

\* The arm of scan_token's match for a byte that may be followed by '='.
one_or_two(s, two, one) ==
    LET r == advance_if(s, EQUAL)
    IN  add_token(r.s, IF r.ok THEN two ELSE one, None)

\* Mutant: the two parentheses are swapped.
single_char_token_Swapped(ch) ==
    CASE ch = LPAREN -> "RightParen"
      [] ch = RPAREN -> "LeftParen"
      [] ch = LBRACE -> "LeftBrace"
      [] ch = RBRACE -> "RightBrace"
      [] ch = COMMA -> "Comma"
      [] ch = DOT -> "Dot"
      [] ch = MINUS -> "Minus"
      [] ch = PLUS -> "Plus"
      [] ch = SEMICOLON -> "Semicolon"
      [] ch = STAR -> "Star"
      [] OTHER -> "None"

\* The first ten arms of scan_token's match: the one-byte tokens.
single_char_token(ch) ==
    CASE ch = LPAREN -> "LeftParen"
      [] ch = RPAREN -> "RightParen"
      [] ch = LBRACE -> "LeftBrace"
      [] ch = RBRACE -> "RightBrace"
      [] ch = COMMA -> "Comma"
      [] ch = DOT -> "Dot"
      [] ch = MINUS -> "Minus"
      [] ch = PLUS -> "Plus"
      [] ch = SEMICOLON -> "Semicolon"
      [] ch = STAR -> "Star"
      [] OTHER -> "None"

\* Mutant: after an unexpected byte the rest of the line is skipped.
scan_token_ErrorSkipsLine(s) ==
    LET s0 == advance(s)
        ch == Consumed(s0)
    IN  IF s0.panicked THEN s0
        ELSE CASE single_char_token(ch) # "None" ->
                    add_token(s0, single_char_token(ch), None)
               [] ch = BANG -> one_or_two(s0, "BangEqual", "Bang")
               [] ch = EQUAL -> one_or_two(s0, "EqualEqual", "Equal")
               [] ch = LESS -> one_or_two(s0, "LessEqual", "Less")
               [] ch = GREATER -> one_or_two(s0, "GreaterEqual", "Greater")
               [] ch = SLASH ->
                    LET r == advance_if(s0, SLASH)
                    IN  IF r.ok THEN consume_line(r.s)
                        ELSE add_token(r.s, "Slash", None)
               [] ch = NEWLINE -> [s0 EXCEPT !.line = @ + 1]
               [] ch = QUOTE -> string(s0)
               [] OTHER ->
                    IF is_digit(ch) THEN number(s0)
                    ELSE IF is_alpha(ch) THEN identifier(s0)
                    ELSE IF is_whitespace(ch) THEN s0
                    ELSE consume_line(report_error(s0, <<"Unexpected character", ch>>))

\* scan_token scans a single token.
scan_token(s) ==
    LET s0 == advance(s)
        ch == Consumed(s0)
    IN  IF s0.panicked THEN s0
        ELSE CASE single_char_token(ch) # "None" ->
                    add_token(s0, single_char_token(ch), None)
               [] ch = BANG -> one_or_two(s0, "BangEqual", "Bang")
               [] ch = EQUAL -> one_or_two(s0, "EqualEqual", "Equal")
               [] ch = LESS -> one_or_two(s0, "LessEqual", "Less")
               [] ch = GREATER -> one_or_two(s0, "GreaterEqual", "Greater")
               [] ch = SLASH ->
                    LET r == advance_if(s0, SLASH)
                    IN  IF r.ok THEN consume_line(r.s)
                        ELSE add_token(r.s, "Slash", None)
               [] ch = NEWLINE -> [s0 EXCEPT !.line = @ + 1]
               [] ch = QUOTE -> string(s0)
               [] OTHER ->
                    IF is_digit(ch) THEN number(s0)
                    ELSE IF is_alpha(ch) THEN identifier(s0)
                    ELSE IF is_whitespace(ch) THEN s0
                    ELSE report_error(s0, <<"Unexpected character", ch>>)

\* The loop of scan_tokens.
RECURSIVE scan_loop(_)
scan_loop(s) ==
    IF s.panicked \/ is_at_end(s) THEN s
    ELSE scan_loop(scan_token([s EXCEPT !.start = s.current]))

\* scan_tokens as one call: the fields when it returns (or has panicked).
scan_tokens(s) ==
    LET s1 == scan_loop(s)
    IN  IF s1.panicked THEN s1
        ELSE [s1 EXCEPT
                !.tokens = Append(@, [token_type |-> "Eof", lexeme |-> <<>>,
                                      line |-> s1.line, literal |-> None]),
                !.spans = Append(@, <<s1.current, s1.current>>)]

\* Scanner::new(source, error_cb), for the source of the model.
new(cb) ==
    [tokens |-> <<>>, had_error |-> FALSE, start |-> 0, current |-> 0,
     line |-> 1, sink |-> <<>>, detected |-> <<>>, spans |-> <<>>,
     panicked |-> FALSE, error_cb |-> cb, pc |-> "new"]

-----------------------------------------------------------------------------
(* The sources scanned: every valid UTF-8 text of at most MaxLen bytes     *)
(* over Alphabet, and the sources of the scanner's tests and of the        *)
(* documented examples.                                                    *)

Alphabet == {QUOTE, NEWLINE, TILDE, 97, 49, DOT, EQUAL, BANG, SLASH, SPACE}

BoundedSources == UNION {[1..n -> Alphabet] : n \in 0..MaxLen}

ExtraSources == {
    \* a, tab, carriage return, form feed, space, newline, 1
    <<97, TAB, CR, FORMFEED, SPACE, NEWLINE, 49>>,
    \* tab, vertical tab
    <<TAB, 11>>,
    \* ( ) { } , . - + ; / * ! != = == > >= < <=      (test_scan_simple_tokens)
    <<40, 32, 41, 32, 123, 32, 125, 32, 44, 32, 46, 32, 45, 32, 43, 32, 59, 32,
      47, 32, 42, 32, 33, 32, 33, 61, 32, 61, 32, 61, 61, 32, 62, 32, 62, 61,
      32, 60, 32, 60, 61>>,
    \* (){},.-+;/*
    <<40, 41, 123, 125, 44, 46, 45, 43, 59, 47, 42>>,
    \* ' abc _def gHiJ kl_mn a1 0a '                  (test_scan_identifer)
    <<32, 97, 98, 99, 32, 95, 100, 101, 102, 32, 103, 72, 105, 74, 32, 107, 108,
      95, 109, 110, 32, 97, 49, 32, 48, 97, 32>>,
    \* ' for IF force '                               (test_scan_keyword)
    <<32, 102, 111, 114, 32, 73, 70, 32, 102, 111, 114, 99, 101, 32>>,
    \* ' "ab" "c\nd" "ef" '                           (test_scan_string)
    <<32, 34, 97, 98, 34, 32, 34, 99, 10, 100, 34, 32, 34, 101, 102, 34, 32>>,
    \* ' 111 111.222 -333 444. '                      (test_scan_number)
    <<32, 49, 49, 49, 32, 49, 49, 49, 46, 50, 50, 50, 32, 45, 51, 51, 51, 32,
      52, 52, 52, 46, 32>>,
    \* '\n~'                                          (test_scan_tokens_unexpected_token)
    <<10, 126>>,
    \* '\n"\n'                                        (test_scan_tokens_unterminated_string)
    <<10, 34, 10>>,
    \* '"e-acute"', 'e-acute' (two bytes, 0xC3 0xA9), '// e-acute\n1'
    <<34, 195, 169, 34>>,
    <<195, 169>>,
    <<47, 47, 195, 169, 10, 49>>,
    \* '"a\n\nb" c "d'
    <<34, 97, 10, 10, 98, 34, 32, 99, 32, 34, 100>>,
    \* '1.10 1.1 "'
    <<49, 46, 49, 48, 32, 49, 46, 49, 32, 34>>,
    \* '444.'
    <<52, 52, 52, 46>>,
    \* '0a'
    <<48, 97>>,
    \* '//\n\na'
    <<47, 47, 10, 10, 97>>,
    \* 'and class else false fun for if nil or print return super this true var while'
    <<97, 110, 100, 32, 99, 108, 97, 115, 115, 32, 101, 108, 115, 101, 32,
      102, 97, 108, 115, 101, 32, 102, 117, 110, 32, 102, 111, 114, 32, 105,
      102, 32, 110, 105, 108, 32, 111, 114, 32, 112, 114, 105, 110, 116, 32,
      114, 101, 116, 117, 114, 110, 32, 115, 117, 112, 101, 114, 32, 116,
      104, 105, 115, 32, 116, 114, 117, 101, 32, 118, 97, 114, 32, 119, 104,
      105, 108, 101>>,
    \* 'fo For _if or1 classs'
    <<102, 111, 32, 70, 111, 114, 32, 95, 105, 102, 32, 111, 114, 49, 32, 99,
      108, 97, 115, 115, 115>>
}

Sources == {src \in BoundedSources \cup ExtraSources : Utf8Valid(src)}

-----------------------------------------------------------------------------
(* The state machine: Scanner::new, then calls of scan_tokens, one action  *)
(* per iteration of its loop.                                              *)

\* The scanner's fields as the record the methods work on.
Self ==
    [tokens |-> tokens, had_error |-> had_error, start |-> start,
     current |-> current, line |-> line, sink |-> sink,
     detected |-> detected, spans |-> spans, panicked |-> FALSE,
     error_cb |-> error_cb, pc |-> pc]

Install(s) ==
    /\ tokens' = s.tokens
    /\ had_error' = s.had_error
    /\ start' = s.start
    /\ current' = s.current
    /\ line' = s.line
    /\ sink' = s.sink
    /\ detected' = s.detected
    /\ spans' = s.spans

-----------------------------------------------------------------------------
(* Expressions (expr.rs) and the printer (print.rs).  An expression is a   *)
(* record with the fields of its variant's struct and a tag for the        *)
(* variant; text is a sequence of bytes.                                    *)

\* Expr::make_binary
make_binary(left, operator, right) ==
    [tag |-> "Binary", left |-> left, operator |-> operator, right |-> right]

\* Expr::make_grouping
make_grouping(expression) == [tag |-> "Grouping", expression |-> expression]

\* Expr::make_literal
make_literal(value) == [tag |-> "Literal", value |-> value]

\* Expr::make_unary
make_unary(operator, expression) ==
    [tag |-> "Unary", operator |-> operator, expression |-> expression]

\* make_token of the printer's tests.
make_token(token_type, lexeme) ==
    [token_type |-> token_type, lexeme |-> lexeme, line |-> 1, literal |-> None]

\* Literal::Number of the decimal mant / 10^scale, and Literal::String.
Number(mant, scale) == [tag |-> "Number", num |-> Normalize(mant, scale)]

String(str) == [tag |-> "String", str |-> str]

RECURSIVE Pow10(_)
Pow10(k) == IF k = 0 THEN 1 ELSE 10 * Pow10(k - 1)

RECURSIVE DecimalDigits(_)
DecimalDigits(n) ==
    IF n < 10 THEN <<48 + n>>
    ELSE DecimalDigits(n \div 10) \o <<48 + (n % 10)>>

RECURSIVE ZeroPad(_, _)
ZeroPad(digits, width) ==
    IF Len(digits) >= width THEN digits ELSE ZeroPad(<<48>> \o digits, width)

\* format!("{}", n) of a finite f64 n >= 0: the integer part, and the
\* fraction after a '.' only if there is one.
fmt_f64(num) ==
    IF num.scale = 0 THEN DecimalDigits(num.mant)
    ELSE DecimalDigits(num.mant \div Pow10(num.scale)) \o <<DOT>>
         \o ZeroPad(DecimalDigits(num.mant % Pow10(num.scale)), num.scale)

\* Mutant: the operator is printed between its operands.
visit_binary_expr_Infix(expr, left, right) ==
    <<LPAREN>> \o left \o <<SPACE>> \o expr.operator.lexeme \o <<SPACE>>
    \o right \o <<RPAREN>>

\* The visit methods of AstPrinter.  left, right and inner are what the
\* calls of accept on the children returned.
visit_binary_expr(expr, left, right) ==
    <<LPAREN>> \o expr.operator.lexeme \o <<SPACE>> \o left \o <<SPACE>>
    \o right \o <<RPAREN>>

visit_grouping_expr(expr, inner) ==
    <<LPAREN, 103, 114, 111, 117, 112, SPACE>> \o inner \o <<RPAREN>>

visit_literal_expr(expr) ==
    IF expr.value.tag = "Number" THEN fmt_f64(expr.value.num)
    ELSE <<QUOTE>> \o expr.value.str \o <<QUOTE>>

visit_unary_expr(expr, inner) ==
    <<LPAREN>> \o expr.operator.lexeme \o <<SPACE>> \o inner \o <<RPAREN>>

\* The visit method accept of Expr calls for a node.
accept_method(expr) ==
    CASE expr.tag = "Binary" -> "visit_binary_expr"
      [] expr.tag = "Grouping" -> "visit_grouping_expr"
      [] expr.tag = "Literal" -> "visit_literal_expr"
      [] expr.tag = "Unary" -> "visit_unary_expr"

\* accept of Expr with an AstPrinter as the visitor, as one function.
RECURSIVE accept(_)
accept(expr) ==
    CASE expr.tag = "Binary" ->
            visit_binary_expr(expr, accept(expr.left), accept(expr.right))
      [] expr.tag = "Grouping" -> visit_grouping_expr(expr, accept(expr.expression))
      [] expr.tag = "Literal" -> visit_literal_expr(expr)
      [] expr.tag = "Unary" -> visit_unary_expr(expr, accept(expr.expression))

\* AstPrinter::print
print(expr) == accept(expr)

\* The node of expr at path, a sequence of field names from the root.
RECURSIVE Subtree(_, _)
Subtree(expr, path) ==
    IF path = <<>> THEN expr ELSE Subtree(expr[Head(path)], Tail(path))

\* The boxed children of a node, by field name, in the order of the fields.
Children(expr) ==
    CASE expr.tag = "Binary" -> <<"left", "right">>
      [] expr.tag = "Grouping" -> <<"expression">>
      [] expr.tag = "Literal" -> <<>>
      [] expr.tag = "Unary" -> <<"expression">>

RECURSIVE Paths(_)
Paths(expr) ==
    {<<>>} \cup UNION {{<<Children(expr)[k]>> \o path :
                            path \in Paths(expr[Children(expr)[k]])} :
                       k \in 1..Len(Children(expr))}

Size(expr) == Cardinality(Paths(expr))

\* The expressions printed: all those of at most MaxNodes nodes over a few
\* literals and operators, and those of the printer's tests.
MaxNodes == 4

Literals ==
    {Number(123, 0), Number(4567, 2), String(<<50, DOT, 48>>), String(<<97, QUOTE>>)}

UnaryOps == {make_token("Minus", <<MINUS>>)}

BinaryOps == {make_token("Star", <<STAR>>), make_token("EqualEqual", <<EQUAL, EQUAL>>)}

RECURSIVE ExprsOfSize(_)
ExprsOfSize(n) ==
    IF n = 1 THEN {make_literal(value) : value \in Literals}
    ELSE {make_grouping(e) : e \in ExprsOfSize(n - 1)}
         \cup {make_unary(op, e) : op \in UnaryOps, e \in ExprsOfSize(n - 1)}
         \cup UNION {{make_binary(l, op, r) :
                          l \in ExprsOfSize(k), op \in BinaryOps,
                          r \in ExprsOfSize(n - 1 - k)} : k \in 1..(n - 2)}

\* The expression of test_print.
TestPrintExpr ==
    make_binary(make_unary(make_token("Minus", <<MINUS>>),
                           make_literal(Number(123, 0))),
                make_token("Star", <<STAR>>),
                make_grouping(make_literal(Number(4567, 2))))

ExtraExprs ==
    {make_binary(make_literal(Number(0, 0)), make_token("Star", <<STAR>>),
                 make_literal(Number(1, 0))),
     make_grouping(make_literal(Number(10202, 2))),
     make_literal(Number(20, 1)),
     make_unary(make_token("Minus", <<MINUS>>), make_literal(Number(20, 1))),
     TestPrintExpr,
     make_binary(make_binary(make_literal(Number(123, 0)),
                             make_token("Star", <<STAR>>),
                             make_literal(Number(5, 1))),
                 make_token("EqualEqual", <<EQUAL, EQUAL>>),
                 make_binary(make_grouping(make_literal(String(<<97, QUOTE>>))),
                             make_token("Star", <<STAR>>),
                             make_literal(Number(100, 3))))}

Exprs == UNION {ExprsOfSize(n) : n \in 1..MaxNodes} \cup ExtraExprs

\* AstPrinter::new and an expression handed to print: the expression as it
\* was given and as it is, the stack of the visit methods being executed
\* (each with the path of its node and what its calls of accept have
\* returned), and as history the visits made, what each returned, and the
\* number of steps taken.
NewPrinter(expr) ==
    [given |-> expr, expr |-> expr, stack |-> <<>>, log |-> <<>>,
     returns |-> {}, result |-> <<>>, ticks |-> 0, pc |-> "new"]

\* A printer that is never used.
NoPrinter == NewPrinter(make_literal(Number(0, 0)))

\* A second Scanner that is constructed and never used.
NoPeer == new(FALSE)

\* Scanner::new
Init ==
    /\ source \in Sources
    /\ error_cb \in BOOLEAN
    /\ tokens = <<>>
    /\ had_error = FALSE
    /\ start = 0
    /\ current = 0
    /\ line = 1
    /\ sink = <<>>
    /\ detected = <<>>
    /\ spans = <<>>
    /\ pc = "new"
    /\ calls = 0
    /\ steps = 0
    /\ comments = <<>>
    /\ peer = NoPeer
    /\ printer = NoPrinter

\* A caller calls scan_tokens.
Call ==
    /\ pc \in {"new", "returned"}
    /\ calls < MaxCalls
    /\ pc' = "scanning"
    /\ calls' = calls + 1
    /\ UNCHANGED <<source, error_cb, peer, printer, tokens, had_error, start, current, line,
                   sink, detected, spans, steps, comments>>

\* The lexeme at current starts with two '/': the comment arm of scan_token.
StartsComment ==
    /\ current + 2 <= Len(source)
    /\ source[current + 1] = SLASH
    /\ source[current + 2] = SLASH

\* Mutant: the loop does not move start to the beginning of the next lexeme.
ScanStep_NoStartReset ==
    /\ pc = "scanning"
    /\ ~is_at_end(Self)
    /\ LET s1 == scan_token(Self)
       IN  /\ Install(s1)
           /\ pc' = IF s1.panicked THEN "panicked" ELSE "scanning"
    /\ steps' = steps + 1
    /\ comments' = IF StartsComment THEN Append(comments, <<current, current', line>>)
                   ELSE comments
    /\ UNCHANGED <<source, error_cb, peer, printer, calls>>

\* One iteration of the loop of scan_tokens.
ScanStep ==
    /\ pc = "scanning"
    /\ ~is_at_end(Self)
    /\ LET s1 == scan_token([Self EXCEPT !.start = current])
       IN  /\ Install(s1)
           /\ pc' = IF s1.panicked THEN "panicked" ELSE "scanning"
    /\ steps' = steps + 1
    /\ comments' = IF StartsComment THEN Append(comments, <<current, current', line>>)
                   ELSE comments
    /\ UNCHANGED <<source, error_cb, peer, printer, calls>>

\* Mutant: scan_tokens returns without pushing Eof.
Finish_NoEof ==
    /\ pc = "scanning"
    /\ is_at_end(Self)
    /\ pc' = "returned"
    /\ UNCHANGED <<source, error_cb, peer, printer, tokens, had_error, start, current, line,
                   sink, detected, spans, calls, steps, comments>>

\* Mutant: Eof is pushed with the first line, not the last.
Finish_EofFirstLine ==
    /\ pc = "scanning"
    /\ is_at_end(Self)
    /\ tokens' = Append(tokens, [token_type |-> "Eof", lexeme |-> <<>>,
                                 line |-> 1, literal |-> None])
    /\ spans' = Append(spans, <<current, current>>)
    /\ pc' = "returned"
    /\ UNCHANGED <<source, error_cb, peer, printer, had_error, start, current, line,
                   sink, detected, calls, steps, comments>>

\* The loop of scan_tokens is over: push Eof and return (had_error, tokens).
Finish ==
    /\ pc = "scanning"
    /\ is_at_end(Self)
    /\ tokens' = Append(tokens, [token_type |-> "Eof", lexeme |-> <<>>,
                                 line |-> line, literal |-> None])
    /\ spans' = Append(spans, <<current, current>>)
    /\ pc' = "returned"
    /\ UNCHANGED <<source, error_cb, peer, printer, had_error, start, current, line,
                   sink, detected, calls, steps, comments>>

Next == Call \/ ScanStep \/ Finish

Spec == Init /\ [][Next]_vars

-----------------------------------------------------------------------------
(* Two Scanners over the same source, each with its own choice of          *)
(* callback, their calls of scan_tokens interleaved step by step.          *)

\* The sources two Scanners scan together are at most MaxLenTwo bytes long,
\* or are sources of the tests.
MaxLenTwo == 2

SourcesTwo == {src \in Sources : Len(src) <= MaxLenTwo \/ src \in ExtraSources}

\* Both Scanners are constructed.
InitTwo ==
    /\ source \in SourcesTwo
    /\ error_cb \in BOOLEAN
    /\ tokens = <<>>
    /\ had_error = FALSE
    /\ start = 0
    /\ current = 0
    /\ line = 1
    /\ sink = <<>>
    /\ detected = <<>>
    /\ spans = <<>>
    /\ pc = "new"
    /\ calls = 0
    /\ steps = 0
    /\ comments = <<>>
    /\ \E cb \in BOOLEAN : peer = new(cb)
    /\ printer = NoPrinter

PeerUnchanged ==
    UNCHANGED <<source, error_cb, printer, tokens, had_error, start, current, line,
                sink, detected, spans, pc, calls, steps, comments>>

\* A caller calls scan_tokens of the second Scanner.
PeerCall ==
    /\ peer.pc = "new"
    /\ peer' = [peer EXCEPT !.pc = "scanning"]
    /\ PeerUnchanged

\* Mutant: the line counter is one counter shared by all Scanners.
PeerStep_SharedLine ==
    /\ peer.pc = "scanning"
    /\ ~is_at_end(peer)
    /\ LET s1 == scan_token([peer EXCEPT !.start = peer.current, !.line = line])
       IN  /\ peer' = [s1 EXCEPT !.pc = IF s1.panicked THEN "panicked" ELSE "scanning"]
           /\ line' = s1.line
    /\ UNCHANGED <<source, error_cb, printer, tokens, had_error, start, current,
                   sink, detected, spans, pc, calls, steps, comments>>

\* One iteration of the loop of scan_tokens of the second Scanner.
PeerStep ==
    /\ peer.pc = "scanning"
    /\ ~is_at_end(peer)
    /\ LET s1 == scan_token([peer EXCEPT !.start = peer.current])
       IN  peer' = [s1 EXCEPT !.pc = IF s1.panicked THEN "panicked" ELSE "scanning"]
    /\ PeerUnchanged

\* scan_tokens of the second Scanner pushes Eof and returns.
PeerFinish ==
    /\ peer.pc = "scanning"
    /\ is_at_end(peer)
    /\ peer' = [peer EXCEPT
                  !.tokens = Append(@, [token_type |-> "Eof", lexeme |-> <<>>,
                                        line |-> peer.line, literal |-> None]),
                  !.spans = Append(@, <<peer.current, peer.current>>),
                  !.pc = "returned"]
    /\ PeerUnchanged

NextTwo == Call \/ ScanStep \/ Finish \/ PeerCall \/ PeerStep \/ PeerFinish

SpecTwo == InitTwo /\ [][NextTwo]_vars

-----------------------------------------------------------------------------
(* AstPrinter::print, one call or return of a visit method at a time.      *)

InitPrint ==
    /\ source = <<>>
    /\ error_cb = FALSE
    /\ tokens = <<>>
    /\ had_error = FALSE
    /\ start = 0
    /\ current = 0
    /\ line = 1
    /\ sink = <<>>
    /\ detected = <<>>
    /\ spans = <<>>
    /\ pc = "new"
    /\ calls = 0
    /\ steps = 0
    /\ comments = <<>>
    /\ peer = NoPeer
    /\ \E expr \in Exprs : printer = NewPrinter(expr)

PrinterUnchanged ==
    UNCHANGED <<source, error_cb, tokens, had_error, start, current, line,
                sink, detected, spans, pc, calls, steps, comments, peer>>

Tick(p) == [p EXCEPT !.ticks = @ + 1]

\* accept of the node at path: the visit method for its variant is called.
Enter(p, path) ==
    LET method == accept_method(Subtree(p.expr, path))
    IN  [p EXCEPT !.stack = Append(@, [path |-> path, method |-> method,
                                       parts |-> <<>>]),
                  !.log = Append(@, [path |-> path, method |-> method])]

\* The executing visit method returns text to its caller.
Return(p, text) ==
    LET top == p.stack[Len(p.stack)]
        rest == SubSeq(p.stack, 1, Len(p.stack) - 1)
    IN  [p EXCEPT
           !.returns = @ \cup {<<top.path, text>>},
           !.stack = IF rest = <<>> THEN rest
                     ELSE [rest EXCEPT ![Len(rest)].parts = Append(@, text)],
           !.result = IF rest = <<>> THEN text ELSE @,
           !.pc = IF rest = <<>> THEN "returned" ELSE @]

\* The executing visit method and its node.
Top == printer.stack[Len(printer.stack)]

Node == Subtree(printer.expr, Top.path)

\* AstPrinter::print
PrintCall ==
    /\ printer.pc = "new"
    /\ printer' = Tick(Enter([printer EXCEPT !.pc = "printing"], <<>>))
    /\ PrinterUnchanged

\* Mutant: the right operand is visited before the left.
VisitBinaryExpr_RightFirst ==
    /\ printer.pc = "printing"
    /\ Top.method = "visit_binary_expr"
    /\ printer' = Tick(
         CASE Len(Top.parts) = 0 -> Enter(printer, Append(Top.path, "right"))
           [] Len(Top.parts) = 1 -> Enter(printer, Append(Top.path, "left"))
           [] OTHER -> Return(printer,
                              visit_binary_expr(Node, Top.parts[2], Top.parts[1])))
    /\ PrinterUnchanged

\* visit_binary_expr: left.accept, then right.accept, then the text.
VisitBinaryExpr ==
    /\ printer.pc = "printing"
    /\ Top.method = "visit_binary_expr"
    /\ printer' = Tick(
         CASE Len(Top.parts) = 0 -> Enter(printer, Append(Top.path, "left"))
           [] Len(Top.parts) = 1 -> Enter(printer, Append(Top.path, "right"))
           [] OTHER -> Return(printer,
                              visit_binary_expr(Node, Top.parts[1], Top.parts[2])))
    /\ PrinterUnchanged

\* visit_grouping_expr: expression.accept, then the text.
VisitGroupingExpr ==
    /\ printer.pc = "printing"
    /\ Top.method = "visit_grouping_expr"
    /\ printer' = Tick(
         IF Len(Top.parts) = 0 THEN Enter(printer, Append(Top.path, "expression"))
         ELSE Return(printer, visit_grouping_expr(Node, Top.parts[1])))
    /\ PrinterUnchanged

\* visit_literal_expr
VisitLiteralExpr ==
    /\ printer.pc = "printing"
    /\ Top.method = "visit_literal_expr"
    /\ printer' = Tick(Return(printer, visit_literal_expr(Node)))
    /\ PrinterUnchanged

\* visit_unary_expr: expression.accept, then the text.
VisitUnaryExpr ==
    /\ printer.pc = "printing"
    /\ Top.method = "visit_unary_expr"
    /\ printer' = Tick(
         IF Len(Top.parts) = 0 THEN Enter(printer, Append(Top.path, "expression"))
         ELSE Return(printer, visit_unary_expr(Node, Top.parts[1])))
    /\ PrinterUnchanged

NextPrint ==
    \/ PrintCall
    \/ VisitBinaryExpr
    \/ VisitGroupingExpr
    \/ VisitLiteralExpr
    \/ VisitUnaryExpr

SpecPrint == InitPrint /\ [][NextPrint]_vars

-----------------------------------------------------------------------------
(* Properties of the scanner.                                              *)

\* The first call of scan_tokens on the Scanner has returned.
Returned1 == pc = "returned" /\ calls = 1

\* The loop of scan_tokens is about to scan the lexeme that starts at byte
\* source[current + 1].
AtLexeme == pc = "scanning" /\ current < Len(source)

IsNewline(b) == b = NEWLINE

NewlinesIn(bytes) == Len(SelectSeq(bytes, IsNewline))

Unterminated == <<"Unterminated string.">>

EofToken(l) == [token_type |-> "Eof", lexeme |-> <<>>, line |-> l, literal |-> None]

\* C1: when the first scan_tokens call on a new Scanner has returned, the
\* token sequence holds exactly one Eof token, it is the last one, its lexeme
\* is empty and it has no literal; for the empty source the sequence is that
\* one Eof token, at line 1.
C1_OneEofLast ==
    Returned1 =>
        /\ tokens # <<>>
        /\ \A i \in 1..Len(tokens) : (tokens[i].token_type = "Eof") <=> (i = Len(tokens))
        /\ tokens[Len(tokens)].lexeme = <<>>
        /\ tokens[Len(tokens)].literal = None
        /\ (source = <<>> => tokens = <<EofToken(1)>>)

\* A scan with an error and two tokens before Eof has returned.
C1_Witness ==
    /\ Returned1
    /\ had_error
    /\ Len(tokens) >= 3

\* C2: scan_tokens is total.  It never panics; every iteration of its loop
\* consumes at least one byte and stays within the source, so that the loop
\* has made at most as many iterations as bytes are consumed and ends after
\* at most Len(source) of them; the only step out of the loop is the return,
\* taken with the whole source consumed; and when scan_tokens has returned,
\* the token sequence ends with Eof.
C2_Total ==
    /\ [](pc # "panicked")
    /\ [](steps <= current /\ current <= Len(source))
    /\ [][AtLexeme => /\ steps' = steps + 1
                      /\ current' > current
                      /\ current' <= Len(source)
                      /\ pc' = "scanning"]_vars
    /\ [][(pc = "scanning" /\ ~AtLexeme) => pc' = "returned" /\ current' = Len(source)]_vars
    /\ [](pc = "returned" => tokens # <<>> /\ tokens[Len(tokens)].token_type = "Eof")

\* A scan of a source with an unexpected byte and an unterminated string has
\* returned.
C2_Witness ==
    /\ Returned1
    /\ \E i, j \in 1..Len(detected) :
          /\ detected[i][2] = Unterminated
          /\ detected[j][2][1] = "Unexpected character"

\* The bytes that start no error when no string and no comment is around.
Known(b) ==
    \/ single_char_token(b) # "None"
    \/ b \in {BANG, EQUAL, LESS, GREATER, SLASH}
    \/ is_alpha_numeric(b)
    \/ is_whitespace(b)

HasByte(b) == \E k \in 1..Len(source) : source[k] = b

\* C3: had_error is true exactly when an error was detected (report_error
\* ran), with or without a callback; a scan of a source with no quote and only
\* bytes that start a token or are whitespace returns false, one of a source
\* with an unknown byte and no quote and no slash returns true; and had_error,
\* once true, stays true.
C3_ErrorFlag ==
    /\ [](had_error <=> detected # <<>>)
    /\ [](pc = "returned" /\ ~HasByte(QUOTE) /\ (\A k \in 1..Len(source) : Known(source[k]))
            => ~had_error)
    /\ [](pc = "returned" /\ ~HasByte(QUOTE) /\ ~HasByte(SLASH)
            /\ (\E k \in 1..Len(source) : ~Known(source[k]))
            => had_error)
    /\ [][had_error => had_error']_vars

\* A scan without a callback has returned with the flag set and a token
\* scanned after the error.
C3_Witness ==
    /\ pc = "returned"
    /\ ~error_cb
    /\ had_error
    /\ Len(tokens) >= 2
    /\ spans[1][1] > 0

\* C4: the lines of the tokens never decrease along the token sequence, Eof
\* included.
C4_LinesNonDecreasing ==
    \A i, j \in 1..Len(tokens) : i < j => tokens[i].line <= tokens[j].line

\* A returned sequence in which the line grows between two tokens that are
\* not Eof.
C4_Witness ==
    /\ Returned1
    /\ \E i, j \in 1..Len(tokens) :
          /\ i < j
          /\ tokens[i].line < tokens[j].line
          /\ tokens[j].token_type # "Eof"

\* C5: the lexeme of every token but Eof is the slice [start, current) of the
\* source the token was pushed at, the slice is not empty, and the slices of
\* successive tokens do not overlap and follow the order of the source.
C5_LexemeIsSlice ==
    /\ Len(spans) = Len(tokens)
    /\ \A i \in 1..Len(tokens) :
          tokens[i].token_type # "Eof" =>
              /\ 0 <= spans[i][1]
              /\ spans[i][1] < spans[i][2]
              /\ spans[i][2] <= Len(source)
              /\ tokens[i].lexeme = SubSeq(source, spans[i][1] + 1, spans[i][2])
    /\ \A i, j \in 1..Len(tokens) :
          (i < j /\ tokens[i].token_type # "Eof" /\ tokens[j].token_type # "Eof")
              => spans[i][2] <= spans[j][1]

\* A returned sequence with a lexeme of several bytes and a gap between two
\* lexemes.
C5_Witness ==
    /\ Returned1
    /\ \E i \in 1..Len(tokens) : Len(tokens[i].lexeme) >= 2
    /\ \E i \in 1..(Len(tokens) - 1) :
          tokens[i + 1].token_type # "Eof" /\ spans[i][2] < spans[i + 1][1]

HasType(ty) == \E i \in 1..Len(tokens) : tokens[i].token_type = ty

\* C6: a token has a literal exactly when it is a Number or a String token;
\* a Number token's literal is a number and a String token's a string.
C6_LiteralIffNumberOrString ==
    \A i \in 1..Len(tokens) :
        /\ (tokens[i].literal # None) <=> (tokens[i].token_type \in {"Number", "String"})
        /\ tokens[i].token_type = "Number" => tokens[i].literal.tag = "Number"
        /\ tokens[i].token_type = "String" => tokens[i].literal.tag = "String"

\* A returned sequence with a Number, a String and the Eof token.
C6_Witness ==
    /\ Returned1
    /\ HasType("Number")
    /\ HasType("String")
    /\ HasType("Eof")

OneCharType(b) ==
    CASE b = BANG -> "Bang"
      [] b = EQUAL -> "Equal"
      [] b = LESS -> "Less"
      [] b = GREATER -> "Greater"

TwoCharType(b) ==
    CASE b = BANG -> "BangEqual"
      [] b = EQUAL -> "EqualEqual"
      [] b = LESS -> "LessEqual"
      [] b = GREATER -> "GreaterEqual"

PlainToken(ty, lexeme) ==
    [token_type |-> ty, lexeme |-> lexeme, line |-> line, literal |-> None]

\* C7: a lexeme that starts with '!', '=', '<' or '>' yields exactly one token.
\* With '=' as the next byte it is the two-byte token and both bytes are
\* consumed; otherwise (another byte, or the end of the source) it is the
\* one-byte token and the next byte is not consumed.
C7_MaximalMunch ==
    [][(AtLexeme /\ source[current + 1] \in {BANG, EQUAL, LESS, GREATER}) =>
          LET b == source[current + 1]
          IN  IF current + 2 <= Len(source) /\ source[current + 2] = EQUAL
              THEN /\ tokens' = Append(tokens, PlainToken(TwoCharType(b), <<b, EQUAL>>))
                   /\ current' = current + 2
              ELSE /\ tokens' = Append(tokens, PlainToken(OneCharType(b), <<b>>))
                   /\ current' = current + 1]_vars

\* "!==" has been scanned into BangEqual and Equal.
C7_Witness ==
    /\ Len(tokens) >= 2
    /\ tokens[1].token_type = "BangEqual"
    /\ tokens[2].token_type = "Equal"
    /\ spans[2] = <<2, 3>>

Punctuators == {LPAREN, RPAREN, LBRACE, RBRACE, COMMA, DOT, MINUS, PLUS, SEMICOLON, STAR}

PunctuatorType(b) ==
    CASE b = LPAREN -> "LeftParen"
      [] b = RPAREN -> "RightParen"
      [] b = LBRACE -> "LeftBrace"
      [] b = RBRACE -> "RightBrace"
      [] b = COMMA -> "Comma"
      [] b = DOT -> "Dot"
      [] b = MINUS -> "Minus"
      [] b = PLUS -> "Plus"
      [] b = SEMICOLON -> "Semicolon"
      [] b = STAR -> "Star"
      [] b = SLASH -> "Slash"

\* (){},.-+;/*
ElevenPunctuators == <<LPAREN, RPAREN, LBRACE, RBRACE, COMMA, DOT, MINUS, PLUS,
                       SEMICOLON, SLASH, STAR>>

\* C8: a lexeme that starts with one of ( ) { } , . - + ; * or with a '/' not
\* followed by '/' yields exactly one token, of that byte's kind, whose lexeme
\* is that byte, and consumes that byte alone; the source (){},.-+;/* yields
\* the eleven tokens in the order of the source, then Eof.
C8_SingleCharTokens ==
    /\ [][(/\ AtLexeme
           /\ \/ source[current + 1] \in Punctuators
              \/ /\ source[current + 1] = SLASH
                 /\ (current + 2 > Len(source) \/ source[current + 2] # SLASH)) =>
              /\ tokens' = Append(tokens, PlainToken(PunctuatorType(source[current + 1]),
                                                     <<source[current + 1]>>))
              /\ current' = current + 1
              /\ line' = line
              /\ had_error' = had_error]_vars
    /\ []((Returned1 /\ source = ElevenPunctuators) =>
              /\ Len(tokens) = 12
              /\ \A i \in 1..11 :
                    /\ tokens[i].token_type = PunctuatorType(ElevenPunctuators[i])
                    /\ tokens[i].lexeme = <<ElevenPunctuators[i]>>
              /\ tokens[12].token_type = "Eof")

\* The scan of (){},.-+;/* has returned.
C8_Witness ==
    /\ Returned1
    /\ source = ElevenPunctuators
    /\ ~had_error

\* Whether a '"' follows position open of the source, and the position of the
\* first one.
HasClosing(open) == \E j \in (open + 1)..Len(source) : source[j] = QUOTE

ClosingQuote(open) ==
    CHOOSE j \in (open + 1)..Len(source) :
        /\ source[j] = QUOTE
        /\ \A k \in (open + 1)..(j - 1) : source[k] # QUOTE

\* C9: a lexeme that starts with '"' and has a closing '"' yields exactly one
\* String token: its lexeme runs from the opening to the closing quote, both
\* included, its literal is the text strictly between them, every newline in
\* the string adds one to the line counter, and the token's line is the line
\* of the closing quote (one more than the number of newlines before it); no
\* later token has a smaller line.
C9_TerminatedString ==
    /\ [][(AtLexeme /\ source[current + 1] = QUOTE /\ HasClosing(current + 1)) =>
              LET open == current + 1
                  close == ClosingQuote(open)
              IN  /\ tokens' = Append(tokens,
                        [token_type |-> "String",
                         lexeme |-> SubSeq(source, open, close),
                         line |-> 1 + NewlinesIn(SubSeq(source, 1, close)),
                         literal |-> [tag |-> "String",
                                      str |-> SubSeq(source, open + 1, close - 1)]])
                  /\ line' = line + NewlinesIn(SubSeq(source, open, close))
                  /\ tokens'[Len(tokens')].line = line'
                  /\ current' = close
                  /\ had_error' = had_error]_vars
    /\ [](\A i, j \in 1..Len(tokens) :
              (i < j /\ tokens[i].token_type = "String") => tokens[i].line <= tokens[j].line)

\* A String token with a newline inside, tagged with a line after the first,
\* and a later token that is not Eof.
C9_Witness ==
    \E i, j \in 1..Len(tokens) :
        /\ i < j
        /\ tokens[i].token_type = "String"
        /\ NewlinesIn(tokens[i].lexeme) > 0
        /\ tokens[i].line > 1
        /\ tokens[j].token_type # "Eof"

\* A lexeme that starts with '"' and has no closing '"' is scanned: the flag
\* is set, exactly one unterminated-string error with line l is reported (to
\* the callback too, if there is one), no token is pushed, and the scan is at
\* the end of the source, about to push Eof and return.
UnterminatedReportedAt(l) ==
    /\ had_error'
    /\ detected' = Append(detected, <<l, Unterminated>>)
    /\ sink' = (IF error_cb THEN Append(sink, <<l, Unterminated>>) ELSE sink)
    /\ tokens' = tokens
    /\ current' = Len(source)
    /\ pc' = "scanning"

\* C10, as claimed: the error of an unterminated string is reported with the
\* line on which the string opened.
C10_AsClaimed ==
    [][(AtLexeme /\ source[current + 1] = QUOTE /\ ~HasClosing(current + 1)) =>
          UnterminatedReportedAt(line)]_vars

\* C10, amended: the error of an unterminated string is reported with the line
\* reached at the end of the input, the line on which the string opened plus
\* the number of newlines after the opening quote; and the scan returns a
\* sequence that ends with Eof.
C10_UnterminatedString ==
    /\ [][(AtLexeme /\ source[current + 1] = QUOTE /\ ~HasClosing(current + 1)) =>
              UnterminatedReportedAt(
                  line + NewlinesIn(SubSeq(source, current + 2, Len(source))))]_vars
    /\ []((pc = "returned" /\ \E k \in 1..Len(detected) : detected[k][2] = Unterminated)
              => had_error /\ tokens[Len(tokens)].token_type = "Eof")

\* A scan that met an unterminated string with a newline inside, after a
\* token, has returned.
C10_Witness ==
    /\ Returned1
    /\ Len(tokens) >= 2
    /\ \E k \in 1..Len(detected) : detected[k] = <<2, Unterminated>>
    /\ NewlinesIn(SubSeq(source, 1, spans[1][2])) = 0
    /\ ~HasByte(TILDE)

\* The last position of the run of digits that holds position p of the source.
RECURSIVE DigitsEnd(_)
DigitsEnd(p) ==
    IF p + 1 <= Len(source) /\ is_digit(source[p + 1]) THEN DigitsEnd(p + 1) ELSE p

\* The last position of the number that starts at position p: the run of
\* digits, and a '.' with the run of digits after it if a digit follows the '.'.
NumberEnd(p) ==
    LET e == DigitsEnd(p)
    IN  IF e + 2 <= Len(source) /\ source[e + 1] = DOT /\ is_digit(source[e + 2])
        THEN DigitsEnd(e + 2)
        ELSE e

\* 444.
FourFourFourDot == <<52, 52, 52, DOT>>

\* C11: a lexeme that starts with a digit yields exactly one Number token,
\* whose lexeme is the longest run of digits, with a '.' and the run of digits
\* after it only when a digit follows the '.'; a '.' that is not absorbed is
\* the next token, a Dot; "444." yields Number "444", Dot, Eof.
C11_Number ==
    /\ [][(AtLexeme /\ is_digit(source[current + 1])) =>
              LET e == NumberEnd(current + 1)
                  text == SubSeq(source, current + 1, e)
              IN  /\ tokens' = Append(tokens,
                        [token_type |-> "Number", lexeme |-> text, line |-> line,
                         literal |-> [tag |-> "Number", num |-> parse_f64(text)]])
                  /\ current' = e
                  /\ had_error' = had_error]_vars
    /\ [](\A i \in 1..(Len(tokens) - 1) :
              (/\ tokens[i].token_type = "Number"
               /\ spans[i][2] < Len(source)
               /\ source[spans[i][2] + 1] = DOT) =>
                  /\ tokens[i + 1].token_type = "Dot"
                  /\ spans[i + 1] = <<spans[i][2], spans[i][2] + 1>>)
    /\ []((Returned1 /\ source = FourFourFourDot) =>
              /\ Len(tokens) = 3
              /\ tokens[1].token_type = "Number"
              /\ tokens[1].lexeme = <<52, 52, 52>>
              /\ tokens[2].token_type = "Dot"
              /\ tokens[3].token_type = "Eof")

\* A returned sequence with a Number that holds a '.', and a Number with a Dot
\* right after it.
C11_Witness ==
    /\ Returned1
    /\ \E i \in 1..Len(tokens) :
          tokens[i].token_type = "Number" /\ Len(SelectSeq(tokens[i].lexeme, IsDot)) = 1
    /\ \E i \in 1..(Len(tokens) - 1) :
          /\ tokens[i].token_type = "Number"
          /\ tokens[i + 1].token_type = "Dot"
          /\ spans[i + 1][1] = spans[i][2]

\* The last position of the run of letters, digits and '_' that holds
\* position p of the source.
RECURSIVE AlnumEnd(_)
AlnumEnd(p) ==
    IF p + 1 <= Len(source) /\ is_alpha_numeric(source[p + 1]) THEN AlnumEnd(p + 1) ELSE p

\* The sixteen reserved words with their token types: and class else false
\* fun for if nil or print return super this true var while.
ReservedWords == {
    <<<<97, 110, 100>>, "And">>,
    <<<<99, 108, 97, 115, 115>>, "Class">>,
    <<<<101, 108, 115, 101>>, "Else">>,
    <<<<102, 97, 108, 115, 101>>, "False">>,
    <<<<102, 117, 110>>, "Fun">>,
    <<<<102, 111, 114>>, "For">>,
    <<<<105, 102>>, "If">>,
    <<<<110, 105, 108>>, "Nil">>,
    <<<<111, 114>>, "Or">>,
    <<<<112, 114, 105, 110, 116>>, "Print">>,
    <<<<114, 101, 116, 117, 114, 110>>, "Return">>,
    <<<<115, 117, 112, 101, 114>>, "Super">>,
    <<<<116, 104, 105, 115>>, "This">>,
    <<<<116, 114, 117, 101>>, "True">>,
    <<<<118, 97, 114>>, "Var">>,
    <<<<119, 104, 105, 108, 101>>, "While">>
}

\* The token type of the run text: the reserved word's, or Identifier.
WordType(text) ==
    IF \E w \in ReservedWords : w[1] = text
    THEN (CHOOSE w \in ReservedWords : w[1] = text)[2]
    ELSE "Identifier"

\* ' for IF force '
ForIfForce == <<32, 102, 111, 114, 32, 73, 70, 32, 102, 111, 114, 99, 101, 32>>

\* C12: a lexeme that starts with a letter or '_' yields exactly one token,
\* whose lexeme is the longest run of letters, digits and '_', with no
\* literal: the reserved word's token if the run is exactly one of the sixteen
\* reserved words, else Identifier.  "for" is For, "IF" and "force" are
\* Identifier, and "0a" is a Number and an Identifier.
C12_Identifier ==
    /\ [][(AtLexeme /\ is_alpha(source[current + 1])) =>
              LET e == AlnumEnd(current + 1)
                  text == SubSeq(source, current + 1, e)
              IN  /\ tokens' = Append(tokens, PlainToken(WordType(text), text))
                  /\ current' = e
                  /\ had_error' = had_error]_vars
    /\ []((Returned1 /\ source = ForIfForce) =>
              /\ Len(tokens) = 4
              /\ tokens[1].token_type = "For" /\ tokens[1].lexeme = <<102, 111, 114>>
              /\ tokens[2].token_type = "Identifier" /\ tokens[2].lexeme = <<73, 70>>
              /\ tokens[3].token_type = "Identifier"
              /\ tokens[3].lexeme = <<102, 111, 114, 99, 101>>
              /\ tokens[4].token_type = "Eof")
    /\ []((Returned1 /\ source = <<48, 97>>) =>
              /\ Len(tokens) = 3
              /\ tokens[1].token_type = "Number" /\ tokens[1].lexeme = <<48>>
              /\ tokens[2].token_type = "Identifier" /\ tokens[2].lexeme = <<97>>
              /\ tokens[3].token_type = "Eof")

\* A returned sequence with the tokens of all sixteen reserved words.
C12_Witness ==
    /\ Returned1
    /\ \A w \in ReservedWords : HasType(w[2])
    /\ ~HasType("Identifier")

\* The last position of the line of the source that holds position p: the
\* position before the next newline, or the end of the source.
RECURSIVE LineEnd(_)
LineEnd(p) ==
    IF p + 1 <= Len(source) /\ source[p + 1] # NEWLINE THEN LineEnd(p + 1) ELSE p

\* A lexeme that starts with two '/' is scanned: the bytes up to, not
\* including, the next newline or the end of the source are consumed, and no
\* token is pushed, no error is reported and the line counter is unchanged.
CommentSkipped ==
    (AtLexeme /\ StartsComment) =>
        /\ current' = LineEnd(current + 1)
        /\ (current' = Len(source) \/ source[current' + 1] = NEWLINE)
        /\ tokens' = tokens
        /\ had_error' = had_error
        /\ detected' = detected
        /\ sink' = sink
        /\ line' = line
        /\ pc' = "scanning"

\* Token i is the first token that starts after the newline that ends the
\* comment c.
FirstTokenAfter(c, i) ==
    /\ c[2] < Len(source)
    /\ spans[i][1] > c[2]
    /\ \A j \in 1..(i - 1) : spans[j][1] <= c[2]

\* C13, as claimed: the first token after a comment's newline has a line one
\* greater than the comment's line.
C13_AsClaimed ==
    \A k \in 1..Len(comments) : \A i \in 1..Len(tokens) :
        (FirstTokenAfter(comments[k], i) /\ tokens[i].token_type # "Eof")
            => tokens[i].line = comments[k][3] + 1

\* C13, amended: a comment is skipped with no token and no error, up to its
\* newline; the first token after the comment's newline has the comment's line
\* plus the number of newlines from the end of the comment to the end of the
\* token, which is at least one more than the comment's line.
C13_Comment ==
    /\ [][CommentSkipped]_vars
    /\ [](\A k \in 1..Len(comments) : \A i \in 1..Len(tokens) :
              FirstTokenAfter(comments[k], i) =>
                  /\ tokens[i].line = comments[k][3]
                        + NewlinesIn(SubSeq(source, comments[k][2] + 1, spans[i][2]))
                  /\ tokens[i].line >= comments[k][3] + 1)

\* A returned sequence with a token that is not Eof two lines after a comment,
\* and no token before it.
C13_Witness ==
    /\ Returned1
    /\ ~had_error
    /\ \E k \in 1..Len(comments) :
          /\ FirstTokenAfter(comments[k], 1)
          /\ tokens[1].token_type # "Eof"
          /\ tokens[1].line = comments[k][3] + 2

\* The bytes that start no lexeme: not a punctuator, an operator, a quote, a
\* digit, a letter, '_' or whitespace.
Unexpected(b) == ~Known(b) /\ b # QUOTE

UnexpectedCharacter(b) == <<"Unexpected character", b>>

\* C14: a lexeme that starts with a byte that starts no token and is not
\* whitespace reports exactly one unexpected-character error, with the current
\* line (to the callback too, if there is one), sets the flag, pushes no
\* token, leaves the line unchanged and consumes that byte alone; the scan goes
\* on, and a letter or digit right after the byte starts the next token.
C14_UnexpectedCharacter ==
    /\ [][(AtLexeme /\ Unexpected(source[current + 1])) =>
              LET report == <<line, UnexpectedCharacter(source[current + 1])>>
              IN  /\ detected' = Append(detected, report)
                  /\ sink' = (IF error_cb THEN Append(sink, report) ELSE sink)
                  /\ had_error'
                  /\ tokens' = tokens
                  /\ current' = current + 1
                  /\ line' = line
                  /\ pc' = "scanning"]_vars
    /\ []((/\ pc = "returned"
           /\ Len(source) >= 2
           /\ Unexpected(source[1])
           /\ is_alpha_numeric(source[2])) =>
              /\ Len(tokens) >= 2
              /\ spans[1][1] = 1
              /\ had_error)

\* A scan that met an unexpected byte on the second line, and pushed a token
\* after it, has returned.
C14_Witness ==
    /\ Returned1
    /\ detected = << <<2, UnexpectedCharacter(TILDE)>> >>
    /\ Len(tokens) >= 2
    /\ \E k \in 1..Len(source) : source[k] = TILDE /\ spans[Len(tokens) - 1][1] >= k

\* C15: the callback has no influence on the result.  When the first scan has
\* returned, a scan of the same source by a new Scanner with the other choice
\* of callback (None for Some, Some for None) returns the same tokens and the
\* same flag; without a callback nothing is reported to a sink and the flag
\* still tells of every error; with one the sink has got every error.
C15_SinkOptional ==
    Returned1 =>
        LET other == scan_tokens(new(~error_cb))
        IN  /\ ~other.panicked
            /\ other.tokens = tokens
            /\ other.had_error = had_error
            /\ other.detected = detected
            /\ (error_cb => sink = detected /\ other.sink = <<>>)
            /\ (~error_cb => sink = <<>> /\ other.sink = detected)
            /\ (detected # <<>> => had_error)

\* A scan with a callback that got two errors, and with two tokens, has
\* returned.
C15_Witness ==
    /\ Returned1
    /\ error_cb
    /\ Len(sink) >= 2
    /\ Len(tokens) >= 2

-----------------------------------------------------------------------------
\* The fields of the first Scanner, and those of the second.
OwnFields == <<tokens, had_error, start, current, line, sink, detected, spans>>

BothReturned == Returned1 /\ peer.pc = "returned"

\* What one Scanner alone returns over the source with the given callback.
Alone(cb) == scan_tokens(new(cb))

\* C16: two independently constructed Scanners over the same source return
\* the same token sequence and the same error flag however their steps are
\* interleaved and whatever callback each was given; each returns what it
\* returns when it runs alone; and a step of one Scanner leaves the cursor,
\* line counter, token buffer and error flag of the other as they were.
C16_Isolation ==
    /\ [](BothReturned =>
            /\ peer.tokens = tokens
            /\ peer.had_error = had_error
            /\ tokens = Alone(error_cb).tokens
            /\ had_error = Alone(error_cb).had_error
            /\ sink = Alone(error_cb).sink
            /\ peer.sink = Alone(peer.error_cb).sink)
    /\ [][peer' # peer => UNCHANGED OwnFields]_vars
    /\ [][OwnFields' # OwnFields => peer' = peer]_vars

\* Both Scanners have returned, after steps of the one were taken while the
\* other was part way through a source with an error and newlines in it, the
\* one with a callback and the other without.
C16_Witness ==
    /\ BothReturned
    /\ had_error
    /\ Len(tokens) >= 2
    /\ tokens[Len(tokens)].line >= 2
    /\ error_cb /\ ~peer.error_cb

-----------------------------------------------------------------------------
\* The text the visit of the node at path returned.
ReturnedText(path) == (CHOOSE pair \in printer.returns : pair[1] = path)[2]

Printed == printer.pc = "returned"

\* "(* (- 123) (group 45.67))"
TestPrintExpected ==
    <<LPAREN, STAR, SPACE, LPAREN, MINUS, SPACE, 49, 50, 51, RPAREN, SPACE,
      LPAREN, 103, 114, 111, 117, 112, SPACE, 52, 53, DOT, 54, 55, RPAREN, RPAREN>>

\* C17: when print has returned, the visit of every Binary node returned
\* "(" operator-lexeme " " left " " right ")", of every Unary node
\* "(" operator-lexeme " " operand ")", of every Grouping node
\* "(group " inner ")", where left, right, operand and inner are what the
\* visits of the children returned, and of every String literal its raw
\* value between double quotes; print returns what the visit of the root
\* returned; and the expression of test_print prints as
\* "(* (- 123) (group 45.67))".
C17_PrefixText ==
    Printed =>
        /\ \A path \in Paths(printer.given) :
             LET node == Subtree(printer.given, path)
                 text == ReturnedText(path)
             IN  /\ \E pair \in printer.returns : pair[1] = path
                 /\ node.tag = "Binary" =>
                        text = <<LPAREN>> \o node.operator.lexeme \o <<SPACE>>
                               \o ReturnedText(Append(path, "left")) \o <<SPACE>>
                               \o ReturnedText(Append(path, "right")) \o <<RPAREN>>
                 /\ node.tag = "Unary" =>
                        text = <<LPAREN>> \o node.operator.lexeme \o <<SPACE>>
                               \o ReturnedText(Append(path, "expression")) \o <<RPAREN>>
                 /\ node.tag = "Grouping" =>
                        text = <<LPAREN, 103, 114, 111, 117, 112, SPACE>>
                               \o ReturnedText(Append(path, "expression")) \o <<RPAREN>>
                 /\ (node.tag = "Literal" /\ node.value.tag = "String") =>
                        text = <<QUOTE>> \o node.value.str \o <<QUOTE>>
        /\ printer.result = ReturnedText(<<>>)
        /\ printer.result = print(printer.given)
        /\ printer.given = TestPrintExpr => printer.result = TestPrintExpected

\* print has returned "(* (- 123) (group 45.67))" for the expression of
\* test_print.
C17_Witness ==
    /\ Printed
    /\ printer.given = TestPrintExpr
    /\ printer.result = TestPrintExpected
    /\ Cardinality(printer.returns) = 5

-----------------------------------------------------------------------------
\* C18: every error report carries the line counter as it stands when the
\* error is detected, and the callback gets the same line.  A step reports at
\* most one error; an unexpected character is reported with the line it is on,
\* one more than the number of newlines before it; an unterminated string is
\* reported at the end of the input with the line reached there, one more than
\* the number of newlines in the whole source.  The source of a newline, a
\* quote and a newline reports line 3; the source of a newline and '~' reports
\* line 2.
C18_ReportLine ==
    /\ [][detected' # detected =>
            /\ Len(detected') = Len(detected) + 1
            /\ SubSeq(detected', 1, Len(detected)) = detected
            /\ LET report == detected'[Len(detected')]
               IN  /\ report[1] = line'
                   /\ sink' = (IF error_cb THEN Append(sink, report) ELSE sink)
                   /\ report[2] = Unterminated =>
                          /\ current' = Len(source)
                          /\ report[1] = 1 + NewlinesIn(source)
                   /\ report[2] # Unterminated =>
                          /\ report[2] = UnexpectedCharacter(source[current + 1])
                          /\ report[1] = line
                          /\ report[1] = 1 + NewlinesIn(SubSeq(source, 1, current))]_vars
    /\ []((Returned1 /\ source = <<NEWLINE, QUOTE, NEWLINE>>) =>
              detected = << <<3, Unterminated>> >>)
    /\ []((Returned1 /\ source = <<NEWLINE, TILDE>>) =>
              detected = << <<2, UnexpectedCharacter(TILDE)>> >>)

\* A scan whose callback got an unexpected character on line 2 and then an
\* unterminated string has returned.
C18_Witness ==
    /\ Returned1
    /\ error_cb
    /\ Len(sink) = 2
    /\ sink[1] = <<2, UnexpectedCharacter(TILDE)>>
    /\ sink[2] = <<2, Unterminated>>

-----------------------------------------------------------------------------
\* C19: a step at a lexeme that starts with a space, a tab, a carriage return
\* or a form feed consumes that byte alone and leaves the token buffer, the
\* error flag and the line counter as they were, and reports nothing, to the
\* callback or at all; a step at a lexeme that starts with a newline consumes
\* it alone, leaves the token buffer and the error flag as they were, reports
\* nothing, and adds exactly one to the line counter.
C19_Whitespace ==
    /\ [][(AtLexeme /\ source[current + 1] \in {SPACE, TAB, CR, FORMFEED}) =>
              /\ current' = current + 1
              /\ tokens' = tokens
              /\ had_error' = had_error
              /\ line' = line
              /\ sink' = sink
              /\ detected' = detected]_vars
    /\ [][(AtLexeme /\ source[current + 1] = NEWLINE) =>
              /\ current' = current + 1
              /\ tokens' = tokens
              /\ had_error' = had_error
              /\ sink' = sink
              /\ detected' = detected
              /\ line' = line + 1]_vars

\* A scan of a source with a space, a tab, a carriage return, a form feed and
\* a newline between two tokens has returned without an error, Eof on line 2.
C19_Witness ==
    /\ Returned1
    /\ \A b \in {SPACE, TAB, CR, FORMFEED, NEWLINE} : HasByte(b)
    /\ ~had_error
    /\ Len(tokens) = 3
    /\ tokens[3].line = 2

-----------------------------------------------------------------------------
IsPrefix(p, q) == Len(p) <= Len(q) /\ SubSeq(q, 1, Len(p)) = p

\* The visit method that matches a variant.
MatchingVisit(tag) ==
    CASE tag = "Binary" -> "visit_binary_expr"
      [] tag = "Grouping" -> "visit_grouping_expr"
      [] tag = "Literal" -> "visit_literal_expr"
      [] tag = "Unary" -> "visit_unary_expr"

\* The positions in the log of the visits of the nodes at or below path.
VisitsBelow(path) ==
    {i \in 1..Len(printer.log) : IsPrefix(path, printer.log[i].path)}

\* Every node at or below path has been visited and its visit has returned.
FullyVisited(path) ==
    \A q \in Paths(printer.given) :
        IsPrefix(path, q) =>
            /\ \E i \in 1..Len(printer.log) : printer.log[i].path = q
            /\ \E pair \in printer.returns : pair[1] = q

\* C20: printing terminates and visits every node once, in order.  The tree
\* is never modified.  Every step of the printer is one of at most
\* 3 * Size + 1 steps, and while print has not returned the visit method on
\* top of the stack is the one matching the variant of its node, so that the
\* next step can be taken.  Every visit logged is of a node of the tree, by
\* the method matching the node's variant, and no node is visited twice; when
\* print has returned every node has been visited exactly once.  When a node
\* of the right subtree of a Binary node is visited, every node of its left
\* subtree has been visited and has returned.
C20_Traversal ==
    /\ [](printer.expr = printer.given)
    /\ [](printer.ticks <= 3 * Size(printer.given) + 1)
    /\ [][printer' # printer => printer'.ticks = printer.ticks + 1]_vars
    /\ [](printer.pc = "printing" =>
            /\ printer.stack # <<>>
            /\ Top.path \in Paths(printer.given)
            /\ Top.method = MatchingVisit(Node.tag)
            /\ Len(Top.parts) <= Len(Children(Node)))
    /\ [](\A i \in 1..Len(printer.log) :
            /\ printer.log[i].path \in Paths(printer.given)
            /\ printer.log[i].method =
                   MatchingVisit(Subtree(printer.given, printer.log[i].path).tag)
            /\ \A j \in 1..Len(printer.log) :
                   printer.log[j].path = printer.log[i].path => j = i)
    /\ [](Printed =>
            /\ printer.stack = <<>>
            /\ Len(printer.log) = Size(printer.given)
            /\ {printer.log[i].path : i \in 1..Len(printer.log)} = Paths(printer.given)
            /\ FullyVisited(<<>>))
    /\ [](\A path \in Paths(printer.given) :
            (Subtree(printer.given, path).tag = "Binary"
             /\ VisitsBelow(Append(path, "right")) # {}) =>
                /\ FullyVisited(Append(path, "left"))
                /\ \A i \in VisitsBelow(Append(path, "left")) :
                   \A j \in VisitsBelow(Append(path, "right")) : i < j)

\* print has returned for a Binary node whose operands are both Binary nodes,
\* after seven visits, the last one of the right operand's right operand.
C20_Witness ==
    /\ Printed
    /\ printer.given.tag = "Binary"
    /\ printer.given.left.tag = "Binary"
    /\ printer.given.right.tag = "Binary"
    /\ Len(printer.log) >= 7
    /\ printer.log[Len(printer.log)].path = <<"right", "right">>

-----------------------------------------------------------------------------
\* The number of Eof tokens in a token sequence.
IsEof(token) == token.token_type = "Eof"

EofCount(toks) == Len(SelectSeq(toks, IsEof))

\* n Eof tokens at line l.
RECURSIVE Eofs(_, _)
Eofs(n, l) == IF n = 0 THEN <<>> ELSE Append(Eofs(n - 1, l), EofToken(l))

\* C21, as claimed: whenever a call of scan_tokens has returned, the first or
\* a later one, the sequence returned is the one the first call returned and
\* holds exactly one Eof token, and the flag is the one the first call
\* returned.
C21_AsClaimed ==
    pc = "returned" =>
        /\ tokens = Alone(error_cb).tokens
        /\ had_error = Alone(error_cb).had_error
        /\ EofCount(tokens) = 1

\* C21, as the code behaves: the token buffer is never cleared, so every call
\* after the first finds the cursor at the end, scans nothing, reports
\* nothing, and pushes one more Eof token at the final line: after n calls the
\* sequence returned is that of the first call followed by n - 1 more Eof
\* tokens.  The flag and the line are those of the first call.
C21_Rescan ==
    pc = "returned" =>
        LET first == Alone(error_cb)
        IN  /\ tokens = first.tokens \o Eofs(calls - 1, first.line)
            /\ EofCount(tokens) = calls
            /\ had_error = first.had_error
            /\ line = first.line
            /\ current = Len(source)
            /\ detected = first.detected
            /\ sink = first.sink

\* The second call on a Scanner has returned, after a first scan that pushed
\* a token and reported an error: the sequence ends with two Eof tokens.
C21_Witness ==
    /\ pc = "returned"
    /\ calls = 2
    /\ had_error
    /\ Len(tokens) >= 3
    /\ tokens[Len(tokens) - 1].token_type = "Eof"
    /\ tokens[Len(tokens) - 2].token_type # "Eof"

-----------------------------------------------------------------------------
\* The byte at 0-based offset k of the source, NUL past its end.
ByteAt(k) == IF k < Len(source) THEN source[k + 1] ELSE NUL

\* C22: the cursor stays inside the source.  No step panics, so advance is
\* never executed with current at the end of the source (its read of
\* source[current - 1] would then be out of bounds); in every state
\* 0 <= start <= current <= Len(source); peek and peek_next at the cursor give
\* the byte at current and at current + 1 when there is one and NUL when
\* there is none; every token was cut from a span inside the source; and
\* every iteration of the loop of scan_tokens sets start to the old current
\* and leaves current strictly greater than start and at most Len(source).
C22_CursorSafety ==
    /\ [](pc # "panicked")
    /\ [](0 <= start /\ start <= current /\ current <= Len(source))
    /\ [](/\ peek(Self) = ByteAt(current)
          /\ peek_next(Self) = ByteAt(current + 1)
          /\ ~advance(Self).panicked <=> current < Len(source))
    /\ [](\A i \in 1..Len(spans) :
            /\ 0 <= spans[i][1]
            /\ spans[i][1] <= spans[i][2]
            /\ spans[i][2] <= Len(source))
    /\ [][AtLexeme => /\ start' = current
                      /\ current' > start'
                      /\ current' <= Len(source)]_vars

\* A scan is at the end of the source after a step that started past the
\* first lexeme and ran through an unterminated string of two bytes or more.
C22_Witness ==
    /\ pc = "scanning"
    /\ calls = 1
    /\ current = Len(source)
    /\ 0 < start
    /\ start + 2 <= current
    /\ detected # <<>>
    /\ detected[Len(detected)][2] = Unterminated

-----------------------------------------------------------------------------
\* C23: line accounting is exact.  Between the steps of scan_tokens the line
\* counter is 1 plus the number of newline bytes consumed so far, and every
\* step adds to it the number of newline bytes it consumes, whether it
\* consumes a newline between tokens, a comment, or a string with or without
\* its closing quote.  Every Eof token's line is 1 plus the number of newline
\* bytes in the source, and every other token's line is 1 plus the number of
\* newline bytes before the token's last byte.
C23_LineAccounting ==
    /\ [](line = 1 + NewlinesIn(SubSeq(source, 1, current)))
    /\ [][line' = line + NewlinesIn(SubSeq(source, current + 1, current'))]_vars
    /\ [](\A i \in 1..Len(tokens) :
            IF tokens[i].token_type = "Eof"
            THEN tokens[i].line = 1 + NewlinesIn(source)
            ELSE tokens[i].line = 1 + NewlinesIn(SubSeq(source, 1, spans[i][2] - 1)))

\* A scan has returned a String token with two newlines inside, a token after
\* it on the same line, and Eof on line 3 after an unterminated string.
C23_Witness ==
    /\ Returned1
    /\ Len(tokens) = 3
    /\ tokens[1].token_type = "String"
    /\ tokens[1].line = 3
    /\ tokens[2].line = 3
    /\ tokens[3].line = 3
    /\ detected = << <<3, Unterminated>> >>

=============================================================================
